---- MODULE Spec2Model ----
(***************************************************************************)
(* Model of mysql_mimic's per-connection protocol engine                   *)
(* (src/mysql_mimic/connection.py): the connection phase, the auth engine, *)
(* and the command-phase loop with its prepared-statement registry.        *)
(*                                                                         *)
(* One Connection task is modelled.  The client, the auth plugins, the     *)
(* identity provider and the session are the environment: their answers    *)
(* are drawn from small sets.                                              *)
(***************************************************************************)
EXTENDS Integers, Sequences, FiniteSets, TLC

VARIABLES
    pc,                   \* position of the connection task
    ctx,                  \* caller of authenticate: "handshake" | "change_user" | "none"
    auth_plugins,         \* identity provider's plugin list, first is the default
    handshake_auth_data,  \* Connection.handshake_auth_data
    handshake_auth_plugin,\* Connection.handshake_auth_plugin
    capabilities,         \* Connection.capabilities (negotiated)
    username,             \* Connection.admin.username
    database,             \* Connection.admin.database
    auth,                 \* locals of the running authenticate call
    stream_seq,           \* MysqlStream sequence counter
    out,                  \* packets written since the last command-phase read
    command,              \* the command packet being handled
    exc,                  \* exception in flight in the command loop
    prepared_stmt_seq,    \* next value of Connection.prepared_stmt_seq
    prepared_stmts,       \* Connection.prepared_stmts
    session,              \* calls observed by the Session collaborator
    client,               \* which script the client follows (bounds its inputs)
    result_set,           \* the result set the running handler obtained from query
    long_data_sent,       \* client's record: payloads sent per statement and parameter
    exec_params,          \* long data the running STMT_EXECUTE found on its statement
    cursor_log,           \* client's record: rows received per cursor, batch by batch
    server_id,            \* MysqlServer.server_id
    connection_seq,       \* next value of MysqlServer._connection_seq
    connections,          \* MysqlServer._connections: connection id -> connection
    tasks,                \* running _client_connected_cb calls: connection -> its id
    accepted,             \* what the latest _client_connected_cb call did last
    released              \* connection ids that have been popped from the map

vars == << pc, ctx, auth_plugins, handshake_auth_data, handshake_auth_plugin,
           capabilities, username, database, auth, stream_seq, out, command,
           exc, prepared_stmt_seq, prepared_stmts, session, client, result_set,
           long_data_sent, exec_params, cursor_log, server_id, connection_seq,
           connections, tasks, accepted, released >>

exec_vars == << long_data_sent, exec_params, cursor_log >>
server_vars == << server_id, connection_seq, connections, tasks, accepted, released >>

-----------------------------------------------------------------------------
(* Bounds *)

MaxSessionInits == 3      \* session.init calls on the connection
MaxLiveStmts == 2         \* statements the client keeps open at once
MaxAuthRounds == 2        \* AuthMoreData challenges a plugin issues per run
MaxCols == 2              \* columns of a result set
MaxRows == 2              \* rows of a result set
MaxParams == 2            \* '?' parameters of a prepared statement
MAX_PREPARED_STMT_ID == 3 \* Connection._MAX_PREPARED_STMT_ID, scaled down from 2**32
MaxLongData == 2          \* long-data packets the client has outstanding at once
MAX_CONNECTION_SEQ == 3   \* MysqlServer._MAX_CONNECTION_SEQ, scaled down from 2**16
MAX_SERVER_ID == 2        \* MysqlServer._MAX_SERVER_ID, scaled down from 2**16

SEQ_MODULUS == 256        \* the sequence id is one byte

-----------------------------------------------------------------------------
(* Values *)

None == "<None>"

Last(s) == s[Len(s)]

\* Auth plugins: name and the client plugin each one requires.
Plugins == {"gullible", "native"}

PluginName(p) ==
    IF p = "gullible" THEN "mysql_mimic_gullible" ELSE "mysql_native_password"

PluginClientPluginName(p) ==
    IF p = "gullible" THEN None ELSE "mysql_native_password"

\* Users known to the identity provider, with the plugin name each record carries.
Users == {"levon_helm", "rick_danko"}

UserAuthPlugin(u) ==
    IF u = "levon_helm" THEN "mysql_mimic_gullible" ELSE "mysql_native_password"

Usernames == Users \cup {"nobody"}

ClientPluginNames == {None, "mysql_native_password", "mysql_clear_password"}

Databases == {None, "db"}

CLIENT_DEPRECATE_EOF == "CLIENT_DEPRECATE_EOF"

server_capabilities == {CLIENT_DEPRECATE_EOF}

\* Plugin lists the server is configured with.
PluginConfigs == { <<"native">>, <<"gullible", "native">> }

\* The client follows one of four scripts, which bound what it sends:
\* "session" exercises authentication, queries and session control, "stmt"
\* exercises the statement registry, "longdata" exercises long data with
\* execution and fetches of small results, "cursor" exercises execution with
\* cursors and fetches of all results.

\* What the client sends, by script.
ClientUsernames == IF client = "session" THEN Usernames ELSE {"levon_helm", "nobody"}

ClientPlugins == IF client = "session" THEN ClientPluginNames ELSE {None}

ClientDatabases == IF client = "session" THEN Databases ELSE {None}

-----------------------------------------------------------------------------
(* Identity provider *)

get_default_plugin == auth_plugins[1]

get_plugin(name) ==
    IF \E i \in 1..Len(auth_plugins) : PluginName(auth_plugins[i]) = name
    THEN CHOOSE p \in Plugins :
            /\ PluginName(p) = name
            /\ \E i \in 1..Len(auth_plugins) : auth_plugins[i] = p
    ELSE None

get_user(name) == IF name \in Users THEN name ELSE None

-----------------------------------------------------------------------------
(* Auth plugin decisions *)

Challenge(data) == [kind |-> "bytes", data |-> data]
Success(name) == [kind |-> "Success", authenticated_as |-> name]
Forbidden(msg) == [kind |-> "Forbidden", msg |-> msg]

NoDecision == [kind |-> "none"]

\* What a plugin may yield once it has been fed an AuthInfo.  rounds counts
\* the challenges already issued in this run.
PluginDecisions(user, rounds) ==
    { Success(user), Success("proxy_user"),
      Forbidden(<<>>), Forbidden(<<"plugin says no">>) }
    \cup (IF rounds < MaxAuthRounds THEN {Challenge("more")} ELSE {})

\* What a plugin may yield when started without an AuthInfo.
PluginFirstYields ==
    { Challenge("nonce"), Challenge("nonce2"), Success("proxy_user"), Forbidden(<<>>) }

IsTerminal(decision) == decision.kind \in {"Success", "Forbidden"}

\* The bytes decisions the loop of lines 226-230 has been given, one more
\* when `decision` is another.
challenges_with(n, decision) == IF IsTerminal(decision) THEN n ELSE n + 1

-----------------------------------------------------------------------------
(* Packets *)

ok_packet(eof, affected_rows, flags) ==
    [type |-> "OK", eof |-> eof, affected_rows |-> affected_rows, flags |-> flags]

eof_packet(flags) == [type |-> "EOF", flags |-> flags]

error_packet(msg, code) == [type |-> "ERR", code |-> code, msg |-> msg]

make_handshake_v10(plugin, data) ==
    [type |-> "HandshakeV10", auth_plugin_name |-> PluginName(plugin),
     auth_data |-> data]

make_auth_switch_request(plugin_name, data) ==
    [type |-> "AuthSwitchRequest", plugin_name |-> plugin_name, data |-> data]

make_auth_more_data(data) == [type |-> "AuthMoreData", data |-> data]

ok == ok_packet(FALSE, 0, {})

\* MysqlStream.write of a list of packets: one frame each.
write_seq(n) == (stream_seq + n) % SEQ_MODULUS

NoExc == [kind |-> "none"]

\* No result set obtained (yet) by the running handler.
NoResultSet == [columns |-> << >>, rows |-> << >>, none |-> TRUE]

\* No AuthInfo built (yet) by an authenticate run.
NoAuthInfo == [handshake_auth_data |-> None, handshake_plugin_name |-> None]

NoAuth ==
    [username |-> None, client_plugin_name |-> None, server_plugin |-> None,
     user_plugin |-> None, path |-> "none", decision |-> NoDecision,
     first_yield |-> NoDecision, rounds |-> 0, first |-> 0, info |-> NoAuthInfo,
     challenges |-> 0]

NoCommand == [type |-> "none"]

NoSession == [inits |-> 0, closes |-> 0]

\* param_buffers = None, and cursor = None
NoBuffers == << >>
NoCursor == [open |-> FALSE, rows |-> << >>]

StmtIds == 0..(MAX_PREPARED_STMT_ID - 1)

\* Parameter ids a long-data packet may name, and the payloads it may carry.
ParamIds == 0..(MaxParams - 1)
Payloads == { <<"a">>, <<"b", "c">> }

\* The client has sent no long data.
NoSent == [s \in StmtIds |-> [i \in ParamIds |-> << >>]]

\* No cursor has been opened: per statement the rows of the result its cursor
\* was opened on, the batches of rows the fetches delivered, and the rows
\* asked for (counted up to the size of the result).
NoLog == [s \in StmtIds |-> [result |-> << >>, batches |-> << >>, asked |-> 0]]

\* No _client_connected_cb call has been made.
NoAccept == [kind |-> "none"]

\* The server part of the state while one connection is looked at.
ServerIdle ==
    /\ server_id = 0
    /\ connection_seq = 0
    /\ connections = << >>
    /\ tasks = << >>
    /\ accepted = NoAccept
    /\ released = {}

-----------------------------------------------------------------------------
\* The state after Connection.__init__, with a client following `script`.
NewConnection(script) ==
    /\ pc = "start"
    /\ ctx = "none"
    /\ auth_plugins \in PluginConfigs
    /\ handshake_auth_data = None
    /\ handshake_auth_plugin = None
    /\ capabilities = {}
    /\ username = None
    /\ database = None
    /\ auth = NoAuth
    /\ stream_seq = 0
    /\ out = <<>>
    /\ command = NoCommand
    /\ exc = NoExc
    /\ prepared_stmt_seq = 0
    /\ prepared_stmts = <<>>
    /\ session = NoSession
    /\ client = script
    /\ result_set = NoResultSet
    /\ long_data_sent = NoSent
    /\ cursor_log = NoLog
    /\ exec_params = NoBuffers

InitConnection(script) == NewConnection(script) /\ ServerIdle

-----------------------------------------------------------------------------
(* Connection.start: the handlers around connection_phase and session.init *)

\* Mutant of HandshakeRaise: the ERR is written and the exception dropped, so
\* that start() goes on to the command phase.
HandshakeRaise_swallowed(e) ==
    /\ pc' = "cmd_read"
    /\ out' = Append(out, error_packet(<<e>>, "HANDSHAKE_ERROR"))
    /\ stream_seq' = write_seq(1)
    /\ ctx' = "none"
    /\ auth' = NoAuth

\* start(), lines 87-89: an exception of connection_phase or session.init is
\* answered with ERR HANDSHAKE_ERROR and raised again; command_phase and
\* session.close are not reached.
HandshakeRaise(e) ==
    /\ pc' = "raised"
    /\ out' = Append(out, error_packet(<<e>>, "HANDSHAKE_ERROR"))
    /\ stream_seq' = write_seq(1)
    /\ ctx' = "none"
    /\ auth' = NoAuth

\* An exception raised inside authenticate: it leaves through
\* connection_phase into start's handler, or through handle_change_user into
\* the command loop's handlers.
AuthRaise(e) ==
    IF ctx = "handshake"
    THEN /\ HandshakeRaise(e)
         /\ UNCHANGED exc
    ELSE /\ pc' = "except"
         /\ exc' = [kind |-> "Exception", code |-> None, msg |-> <<e>>]
         /\ ctx' = "none"
         /\ auth' = NoAuth
         /\ UNCHANGED << out, stream_seq >>

-----------------------------------------------------------------------------
(* Connection.connection_phase *)

\* Lines 97-112: start the default plugin, keep its nonce, write HandshakeV10.
ConnectionPhaseStart ==
    /\ pc = "start"
    /\ \E first \in PluginFirstYields :
         IF first.kind = "bytes"
         THEN /\ handshake_auth_data' = first.data
              /\ handshake_auth_plugin' = PluginName(get_default_plugin)
              /\ out' = Append(out, make_handshake_v10(get_default_plugin, first.data))
              /\ stream_seq' = write_seq(1)
              /\ pc' = "hs_read"
              /\ UNCHANGED << ctx, auth >>
         ELSE \* assert isinstance(auth_data, bytes)
              /\ HandshakeRaise("AssertionError")
              /\ UNCHANGED << handshake_auth_data, handshake_auth_plugin >>
    /\ UNCHANGED << auth_plugins, capabilities, username, database, command, exc, prepared_stmt_seq, prepared_stmts,
                    session, client, result_set,
                    exec_vars, server_vars >>

\* Lines 113-133: read HandshakeResponse41, record its fields, call authenticate.
HandshakeResponse ==
    /\ pc = "hs_read"
    /\ \E caps \in SUBSET server_capabilities, db \in ClientDatabases,
          plugin \in ClientPlugins, name \in ClientUsernames :
         /\ capabilities' = caps
         /\ database' = db
         /\ auth' = [NoAuth EXCEPT !.username = name,
                                   !.client_plugin_name = plugin,
                                   !.server_plugin = get_default_plugin,
                                   !.first = Len(out)]
    /\ stream_seq' = write_seq(1)
    /\ ctx' = "handshake"
    /\ pc' = "authenticate"
    /\ UNCHANGED << auth_plugins, handshake_auth_data, handshake_auth_plugin,
                    username, out, command, exc, prepared_stmt_seq,
                    prepared_stmts, session, client, result_set,
                    exec_vars, server_vars >>

\* Line 115: the stream closes before the response arrives.
HandshakeResponseClosed ==
    /\ pc = "hs_read"
    /\ HandshakeRaise("ConnectionClosed")
    /\ UNCHANGED << auth_plugins, handshake_auth_data, handshake_auth_plugin,
                    capabilities, username, database,
                    command, exc, prepared_stmt_seq, prepared_stmts, session, client, result_set,
                    exec_vars, server_vars >>

-----------------------------------------------------------------------------
(* Connection.authenticate *)

user_plugin_of(user) ==
    IF get_plugin(UserAuthPlugin(user)) # None
    THEN get_plugin(UserAuthPlugin(user))
    ELSE get_default_plugin

\* Mutant of FastPath: the plugin's client plugin name must be declared by the
\* client, the "is None" alternative is lost.
FastPath_without_none(server_plugin, client_plugin, user_plugin) ==
    /\ server_plugin # None
    /\ PluginClientPluginName(server_plugin) = client_plugin
    /\ PluginName(server_plugin) = PluginName(user_plugin)

\* Lines 194-201: the optimistic match of the handshake.
FastPath(server_plugin, client_plugin, user_plugin) ==
    /\ server_plugin # None
    /\ \/ PluginClientPluginName(server_plugin) = None
       \/ PluginClientPluginName(server_plugin) = client_plugin
    /\ PluginName(server_plugin) = PluginName(user_plugin)

\* Mutant of DirectPath: any plugin the client declares is accepted.
DirectPath_any_declared(client_plugin, user_plugin) ==
    \/ PluginClientPluginName(user_plugin) = None
    \/ client_plugin # None

\* Lines 205-208: the client's plugin is the one the user's plugin needs.
DirectPath(client_plugin, user_plugin) ==
    \/ PluginClientPluginName(user_plugin) = None
    \/ PluginClientPluginName(user_plugin) = client_plugin

\* Lines 184-192: the handshake fields of the AuthInfo handed to the plugin
\* (its other fields are the arguments of authenticate).
AuthInfo ==
    [handshake_auth_data |-> handshake_auth_data,
     handshake_plugin_name |-> handshake_auth_plugin]

AuthPath(server_plugin, client_plugin, user_plugin) ==
    IF FastPath(server_plugin, client_plugin, user_plugin) THEN "fast"
    ELSE IF DirectPath(client_plugin, user_plugin) THEN "direct"
    ELSE "switch"

\* Lines 168-177: the identity provider knows no such user.
AuthenticateUnknownUser ==
    /\ pc = "authenticate"
    /\ get_user(auth.username) = None
    /\ out' = Append(out, error_packet(<<"User ", auth.username, " does not exist">>,
                                       "USER_DOES_NOT_EXIST"))
    /\ stream_seq' = write_seq(1)
    /\ pc' = "auth_return"
    /\ UNCHANGED << ctx, auth_plugins, handshake_auth_data, handshake_auth_plugin,
                    capabilities, username, database, auth,
                    command, exc, prepared_stmt_seq, prepared_stmts, session, client, result_set,
                    exec_vars, server_vars >>

\* Lines 179-224: pick the plugin and the path, obtain the first decision.
AuthenticateKnownUser ==
    /\ pc = "authenticate"
    /\ get_user(auth.username) # None
    /\ LET user == get_user(auth.username)
           user_plugin == user_plugin_of(user)
           path == AuthPath(auth.server_plugin, auth.client_plugin_name, user_plugin)
           started == [auth EXCEPT !.user_plugin = user_plugin, !.path = path,
                                   !.info = AuthInfo]
       IN IF path \in {"fast", "direct"}
          THEN \E decision \in PluginDecisions(user, 0) :
                 /\ auth' = [started EXCEPT !.decision = decision,
                                            !.challenges = challenges_with(@, decision)]
                 /\ pc' = "auth_loop"
                 /\ UNCHANGED << out, stream_seq >>
          ELSE \E first \in PluginFirstYields :
                 IF PluginClientPluginName(user_plugin) # None /\ first.kind = "bytes"
                 THEN /\ out' = Append(out, make_auth_switch_request(
                                   PluginClientPluginName(user_plugin), first.data))
                      /\ stream_seq' = write_seq(1)
                      /\ auth' = [started EXCEPT !.decision = first,
                                                !.first_yield = first]
                      /\ pc' = "auth_switch_read"
                 ELSE /\ auth' = [started EXCEPT !.decision = first,
                                                !.first_yield = first,
                                                !.challenges = challenges_with(@, first)]
                      /\ pc' = "auth_loop"
                      /\ UNCHANGED << out, stream_seq >>
    /\ UNCHANGED << ctx, auth_plugins, handshake_auth_data, handshake_auth_plugin,
                    capabilities, username, database,
                    command, exc, prepared_stmt_seq, prepared_stmts, session, client, result_set,
                    exec_vars, server_vars >>

\* Lines 222-224 and 228-230: the client's answer is fed to the plugin.
AuthRead ==
    /\ pc \in {"auth_switch_read", "auth_more_read"}
    /\ \E decision \in PluginDecisions(get_user(auth.username), auth.rounds) :
         auth' = [auth EXCEPT !.decision = decision,
                              !.challenges = challenges_with(@, decision)]
    /\ stream_seq' = write_seq(1)
    /\ pc' = "auth_loop"
    /\ UNCHANGED << ctx, auth_plugins, handshake_auth_data, handshake_auth_plugin,
                    capabilities, username, database, out,
                    command, exc, prepared_stmt_seq, prepared_stmts, session, client, result_set,
                    exec_vars, server_vars >>

\* The stream closes while authenticate waits for the client's answer.
AuthReadClosed ==
    /\ pc \in {"auth_switch_read", "auth_more_read"}
    /\ AuthRaise("ConnectionClosed")
    /\ UNCHANGED << auth_plugins, handshake_auth_data, handshake_auth_plugin,
                    capabilities, username, database,
                    command, prepared_stmt_seq, prepared_stmts, session, client, result_set,
                    exec_vars, server_vars >>

\* Mutant of AuthMoreData: the challenge is written twice.
AuthMoreData_twice ==
    /\ pc = "auth_loop"
    /\ ~IsTerminal(auth.decision)
    /\ out' = out \o << make_auth_more_data(auth.decision.data),
                        make_auth_more_data(auth.decision.data) >>
    /\ stream_seq' = write_seq(2)
    /\ auth' = [auth EXCEPT !.rounds = @ + 1]
    /\ pc' = "auth_more_read"
    /\ UNCHANGED << ctx, auth_plugins, handshake_auth_data, handshake_auth_plugin,
                    capabilities, username, database,
                    command, exc, prepared_stmt_seq, prepared_stmts, session, client, result_set,
                    exec_vars, server_vars >>

\* Lines 226-227: a bytes decision is sent as AuthMoreData.
AuthMoreData ==
    /\ pc = "auth_loop"
    /\ ~IsTerminal(auth.decision)
    /\ out' = Append(out, make_auth_more_data(auth.decision.data))
    /\ stream_seq' = write_seq(1)
    /\ auth' = [auth EXCEPT !.rounds = @ + 1]
    /\ pc' = "auth_more_read"
    /\ UNCHANGED << ctx, auth_plugins, handshake_auth_data, handshake_auth_plugin,
                    capabilities, username, database,
                    command, exc, prepared_stmt_seq, prepared_stmts, session, client, result_set,
                    exec_vars, server_vars >>

\* Mutant of AuthDecided: Forbidden is answered like Success, with OK.
AuthDecided_ok_on_forbidden ==
    /\ pc = "auth_loop"
    /\ IsTerminal(auth.decision)
    /\ IF auth.decision.kind = "Success"
       THEN username' = auth.decision.authenticated_as
       ELSE UNCHANGED username
    /\ out' = Append(out, ok)
    /\ stream_seq' = write_seq(1)
    /\ pc' = "auth_return"
    /\ UNCHANGED << ctx, auth_plugins, handshake_auth_data, handshake_auth_plugin,
                    capabilities, database, auth, command,
                    exc, prepared_stmt_seq, prepared_stmts, session, client,
                    result_set, exec_vars, server_vars >>

\* Lines 232-241: the terminal decision.
AuthDecided ==
    /\ pc = "auth_loop"
    /\ IsTerminal(auth.decision)
    /\ IF auth.decision.kind = "Success"
       THEN /\ username' = auth.decision.authenticated_as
            /\ out' = Append(out, ok)
       ELSE /\ out' = Append(out, error_packet(
                         IF auth.decision.msg # <<>> THEN auth.decision.msg
                         ELSE <<"Access denied for user ", get_user(auth.username)>>,
                         "ACCESS_DENIED_ERROR"))
            /\ UNCHANGED username
    /\ stream_seq' = write_seq(1)
    /\ pc' = "auth_return"
    /\ UNCHANGED << ctx, auth_plugins, handshake_auth_data, handshake_auth_plugin,
                    capabilities, database, auth, command,
                    exc, prepared_stmt_seq, prepared_stmts, session, client, result_set,
                    exec_vars, server_vars >>

\* connection_phase line 134 after authenticate returns.
ConnectionPhaseEnd ==
    /\ pc = "auth_return"
    /\ ctx = "handshake"
    /\ stream_seq' = 0
    /\ pc' = "session_init"
    /\ auth' = NoAuth
    /\ ctx' = "none"
    /\ UNCHANGED << auth_plugins, handshake_auth_data, handshake_auth_plugin,
                    capabilities, username, database, out,
                    command, exc, prepared_stmt_seq, prepared_stmts, session, client, result_set,
                    exec_vars, server_vars >>

\* start(), line 86: session.init(self).
SessionInit ==
    /\ pc = "session_init"
    /\ session' = [session EXCEPT !.inits = @ + 1]
    /\ pc' = "cmd_read"
    /\ UNCHANGED << ctx, auth_plugins, handshake_auth_data, handshake_auth_plugin,
                    capabilities, username, database, auth,
                    stream_seq, out, command, exc, prepared_stmt_seq,
                    prepared_stmts, client, result_set,
                    exec_vars, server_vars >>

\* start(), lines 86-89: session.init raises.
SessionInitRaises ==
    /\ pc = "session_init"
    /\ session' = [session EXCEPT !.inits = @ + 1]
    /\ HandshakeRaise("SessionError")
    /\ UNCHANGED << auth_plugins, handshake_auth_data, handshake_auth_plugin,
                    capabilities, username, database,
                    command, exc, prepared_stmt_seq, prepared_stmts, client, result_set,
                    exec_vars, server_vars >>

-----------------------------------------------------------------------------
(* Result sets and the packets of a response *)

config_vars == << auth_plugins, handshake_auth_data, handshake_auth_plugin, client >>
conn_vars == << capabilities, username, database >>
stmt_vars == << prepared_stmt_seq, prepared_stmts >>

\* A result set: its columns and its rows, both numbered from 1.
ResultSet(ncols, nrows) ==
    [columns |-> [i \in 1..ncols |-> <<"col", i>>], rows |-> [i \in 1..nrows |-> i]]

ResultSets ==
    { ResultSet(0, 0) } \cup { ResultSet(n, r) : n \in 1..MaxCols, r \in 0..MaxRows }

\* bool(result_set)
result_set_truthy(rs) == Len(rs.columns) > 0

make_column_count(n) == [type |-> "ColumnCount", count |-> n]

make_column_definition_41(name) == [type |-> "ColumnDefinition41", name |-> name]

make_text_resultset_row(row) == [type |-> "TextRow", row |-> row]

deprecate_eof == CLIENT_DEPRECATE_EOF \in capabilities

eof == eof_packet({})

\* Mutant of ok_or_eof: the classic EOF whatever was negotiated.
ok_or_eof_classic(affected_rows, flags) == eof_packet(flags)

ok_or_eof(affected_rows, flags) ==
    IF deprecate_eof
    THEN ok_packet(TRUE, affected_rows, flags)
    ELSE eof_packet(flags)

text_resultset(rs) ==
    << make_column_count(Len(rs.columns)) >>
    \o [i \in 1..Len(rs.columns) |-> make_column_definition_41(rs.columns[i])]
    \o (IF ~deprecate_eof THEN << eof >> ELSE << >>)
    \o [i \in 1..Len(rs.rows) |-> make_text_resultset_row(rs.rows[i])]
    \o << ok_or_eof(Len(rs.rows), {}) >>

\* What session.query returns to STMT_EXECUTE, by the client's script.
QueryResults ==
    IF client = "longdata" THEN { ResultSet(0, 0), ResultSet(1, 1) } ELSE ResultSets

\* Exceptions a handler may raise.
MysqlError(msg, code) == [kind |-> "MysqlError", code |-> code, msg |-> msg]
OtherException(msg) == [kind |-> "Exception", code |-> None, msg |-> msg]

\* What Connection.query may do: return a result set, or let an error of the
\* admin parser or of session.query through.
QueryErrors ==
    { MysqlError(<<"syntax error">>, "ER_PARSE_ERROR"), OtherException(<<"boom">>) }

-----------------------------------------------------------------------------
(* Connection.command_phase *)

ChangeUserPackets ==
    { [type |-> "COM_CHANGE_USER", username |-> u, client_plugin |-> p, database |-> d] :
        u \in Usernames, p \in ClientPluginNames, d \in Databases }

PreparePackets ==
    { [type |-> "COM_STMT_PREPARE", sql |-> sql] :
        sql \in UNION { [1..n -> {"?"}] : n \in 0..MaxParams } }

ClosePackets == { [type |-> "COM_STMT_CLOSE", stmt_id |-> i] : i \in StmtIds }

ResetPackets == { [type |-> "COM_STMT_RESET", stmt_id |-> i] : i \in StmtIds }

SendLongDataPackets ==
    { [type |-> "COM_STMT_SEND_LONG_DATA", stmt_id |-> s, param_id |-> i, data |-> d] :
        s \in StmtIds, i \in ParamIds, d \in Payloads }

ExecutePackets ==
    { [type |-> "COM_STMT_EXECUTE", stmt_id |-> s, use_cursor |-> c] :
        s \in StmtIds, c \in BOOLEAN }

FetchPackets ==
    { [type |-> "COM_STMT_FETCH", stmt_id |-> s, num_rows |-> n] :
        s \in StmtIds, n \in 0..MaxRows }

\* The client's record of the long data it has sent, brought up to date with
\* the command that was just answered: STMT_EXECUTE, STMT_RESET and STMT_CLOSE
\* of a statement end the data sent for it, and a new statement starts with
\* none.
ClientSettle ==
    IF command.type \in {"COM_STMT_EXECUTE", "COM_STMT_RESET", "COM_STMT_CLOSE"}
    THEN [long_data_sent EXCEPT ![command.stmt_id] = NoSent[command.stmt_id]]
    ELSE IF command.type = "COM_STMT_PREPARE" /\ out # << >>
            /\ out[1].type = "COM_STMT_PREPARE_OK"
    THEN [long_data_sent EXCEPT ![out[1].stmt_id] = NoSent[out[1].stmt_id]]
    ELSE long_data_sent

\* The rows carried by the binary row packets of a response.
RowsOf(packets) ==
    LET rows == SelectSeq(packets, LAMBDA p : p.type = "BinaryRow")
    IN [i \in 1..Len(rows) |-> rows[i].row]

\* The record of the cursors, kept by the client of the cursor script and
\* brought up to date with the command that was just answered: an execute
\* that opened a cursor starts the record of its statement with the rows the
\* session returned; a fetch that was answered adds its batch of rows and its
\* row count; STMT_RESET and STMT_CLOSE end the record.
CursorSettle ==
    IF client # "cursor"
    THEN cursor_log
    ELSE IF command.type = "COM_STMT_CLOSE"
    THEN [cursor_log EXCEPT ![command.stmt_id] = NoLog[command.stmt_id]]
    ELSE IF out = << >> \/ Last(out).type = "ERR"
    THEN cursor_log
    ELSE IF command.type = "COM_STMT_EXECUTE"
    THEN IF command.use_cursor /\ result_set_truthy(result_set)
         THEN [cursor_log EXCEPT ![command.stmt_id] =
                  [result |-> result_set.rows, batches |-> << >>, asked |-> 0]]
         ELSE cursor_log
    ELSE IF command.type = "COM_STMT_FETCH"
    THEN [cursor_log EXCEPT ![command.stmt_id] =
            [result |-> @.result,
             batches |-> IF RowsOf(out) = << >> THEN @.batches
                         ELSE Append(@.batches, RowsOf(out)),
             asked |-> IF @.asked + command.num_rows < Len(@.result)
                       THEN @.asked + command.num_rows ELSE Len(@.result)]]
    ELSE IF command.type = "COM_STMT_RESET"
    THEN [cursor_log EXCEPT ![command.stmt_id] = NoLog[command.stmt_id]]
    ELSE cursor_log

\* The record once the client has sent command c.
ClientSend(c, sent) ==
    IF c.type = "COM_STMT_SEND_LONG_DATA"
    THEN [sent EXCEPT ![c.stmt_id][c.param_id] = Append(@, c.data)]
    ELSE sent

\* Long-data packets in the client's record.
SentCount(sent) ==
    Cardinality({ t \in StmtIds \X ParamIds \X (1..(MaxLongData + 1)) :
                    t[3] <= Len(sent[t[1]][t[2]]) })

\* The command packets the client may send next.
ClientCommands ==
    IF client = "session"
    THEN { [type |-> t] : t \in {"COM_PING", "COM_DEBUG", "COM_RESET_CONNECTION",
                                  "COM_QUERY", "COM_QUIT", "COM_SLEEP"} }
         \cup (IF session.inits < MaxSessionInits THEN ChangeUserPackets ELSE {})
    ELSE IF client = "stmt"
    THEN { [type |-> t] : t \in {"COM_QUIT", "COM_RESET_CONNECTION"} }
         \cup (IF Cardinality(DOMAIN prepared_stmts) < MaxLiveStmts
               THEN PreparePackets ELSE {})
         \cup ClosePackets
         \cup ResetPackets
    ELSE IF client = "longdata"
    THEN { [type |-> t] : t \in {"COM_QUIT", "COM_RESET_CONNECTION"} }
         \cup (IF Cardinality(DOMAIN prepared_stmts) < MaxLiveStmts
               THEN { c \in PreparePackets : Len(c.sql) = MaxParams } ELSE {})
         \cup (IF SentCount(ClientSettle) < MaxLongData
               THEN SendLongDataPackets ELSE {})
         \cup ExecutePackets
         \cup { c \in FetchPackets : c.num_rows = 1 }
         \cup ResetPackets
         \cup ClosePackets
    ELSE { [type |-> "COM_QUIT"] }
         \cup (IF Cardinality(DOMAIN prepared_stmts) < MaxLiveStmts
               THEN { c \in PreparePackets : Len(c.sql) = 0 } ELSE {})
         \cup ExecutePackets
         \cup FetchPackets
         \cup ResetPackets
         \cup ClosePackets

\* Line 247: a command packet arrives.
CommandRead ==
    /\ pc = "cmd_read"
    /\ \E c \in ClientCommands :
         /\ command' = c
         /\ long_data_sent' = ClientSend(c, ClientSettle)
    /\ cursor_log' = CursorSettle
    /\ stream_seq' = write_seq(1)
    /\ out' = << >>
    /\ result_set' = NoResultSet
    /\ exec_params' = NoBuffers
    /\ pc' = "dispatch"
    /\ UNCHANGED << config_vars, server_vars, conn_vars, stmt_vars, ctx, auth, exc, session >>

\* Lines 248-250 and start() lines 93-94: the stream is closed, the loop
\* returns and the session is closed.
CommandReadClosed ==
    /\ pc = "cmd_read"
    /\ pc' = "closed"
    /\ session' = [session EXCEPT !.closes = @ + 1]
    /\ UNCHANGED << config_vars, exec_vars, server_vars, result_set, conn_vars, stmt_vars, ctx, auth, exc, stream_seq,
                    out, command >>

\* Line 247: stream.read fails with an error other than ConnectionClosed (a
\* ProtocolError of the framer).  No handler of the loop catches it: it leaves
\* command_phase and start(), whose finally clause closes the session.
CommandReadFails ==
    /\ pc = "cmd_read"
    /\ pc' = "raised"
    /\ session' = [session EXCEPT !.closes = @ + 1]
    /\ UNCHANGED << config_vars, exec_vars, server_vars, result_set, conn_vars, stmt_vars,
                    ctx, auth, exc, stream_seq, out, command >>

\* A handler that only answers: the packets it writes, then the finally clause.
Respond(packets) ==
    /\ out' = out \o packets
    /\ stream_seq' = write_seq(Len(packets))
    /\ pc' = "finally"
    /\ UNCHANGED exc

\* A handler that raises before it writes anything.
Raise(e) ==
    /\ exc' = e
    /\ pc' = "except"
    /\ UNCHANGED << out, stream_seq >>

\* Lines 294-300.
handle_ping ==
    /\ pc = "dispatch"
    /\ command.type = "COM_PING"
    /\ Respond(<< ok >>)
    /\ UNCHANGED << config_vars, exec_vars, server_vars, result_set, conn_vars, stmt_vars, ctx, auth, command, session >>

\* Mutant of handle_reset_connection: the reset drops the prepared statements.
handle_reset_connection_clears ==
    /\ pc = "dispatch"
    /\ command.type = "COM_RESET_CONNECTION"
    /\ Respond(<< ok >>)
    /\ prepared_stmts' = << >>
    /\ UNCHANGED << config_vars, exec_vars, server_vars, result_set, conn_vars,
                    prepared_stmt_seq, ctx, auth, command, session >>

\* Lines 302-312: the handler only writes an OK.
handle_reset_connection ==
    /\ pc = "dispatch"
    /\ command.type = "COM_RESET_CONNECTION"
    /\ Respond(<< ok >>)
    /\ UNCHANGED << config_vars, exec_vars, server_vars, result_set, conn_vars, stmt_vars, ctx, auth, command, session >>

\* Lines 314-324.
handle_debug ==
    /\ pc = "dispatch"
    /\ command.type = "COM_DEBUG"
    /\ Respond(<< ok >>)
    /\ UNCHANGED << config_vars, exec_vars, server_vars, result_set, conn_vars, stmt_vars, ctx, auth, command, session >>

\* Lines 326-346.
handle_query ==
    /\ pc = "dispatch"
    /\ command.type = "COM_QUERY"
    /\ \/ \E rs \in ResultSets :
            /\ result_set' = rs
            /\ IF ~result_set_truthy(rs)
               THEN Respond(<< ok >>)
               ELSE Respond(text_resultset(rs))
       \/ \E e \in QueryErrors :
            /\ Raise(e)
            /\ UNCHANGED result_set
    /\ UNCHANGED << config_vars, exec_vars, server_vars, conn_vars, stmt_vars, ctx, auth, command, session >>

\* Lines 277-278: COM_QUIT returns from inside the try block.
handle_quit ==
    /\ pc = "dispatch"
    /\ command.type = "COM_QUIT"
    /\ pc' = "finally"
    /\ UNCHANGED << config_vars, exec_vars, server_vars, result_set, conn_vars, stmt_vars, ctx, auth, command, session,
                    out, stream_seq, exc >>

\* Lines 279-283: any other command byte.
handle_other ==
    /\ pc = "dispatch"
    /\ command.type = "COM_SLEEP"
    /\ Raise(MysqlError(<<"Unsupported Command: ", command.type>>, "UNKNOWN_COM_ERROR"))
    /\ UNCHANGED << config_vars, exec_vars, server_vars, result_set, conn_vars, stmt_vars, ctx, auth, command, session >>

\* Mutant of CommandExcept: only MysqlError is caught, anything else leaves
\* the loop.
CommandExcept_mysql_only ==
    /\ pc = "except"
    /\ IF exc.kind = "MysqlError"
       THEN /\ out' = Append(out, error_packet(exc.msg, exc.code))
            /\ stream_seq' = write_seq(1)
            /\ pc' = "finally"
       ELSE /\ pc' = "raised"
            /\ UNCHANGED << out, stream_seq >>
    /\ exc' = NoExc
    /\ UNCHANGED << config_vars, exec_vars, server_vars, result_set, conn_vars, stmt_vars, ctx, auth, command,
                    session >>

\* Lines 285-290: the except clauses of the loop.
CommandExcept ==
    /\ pc = "except"
    /\ out' = Append(out, IF exc.kind = "MysqlError"
                          THEN error_packet(exc.msg, exc.code)
                          ELSE error_packet(exc.msg, "ER_UNKNOWN_ERROR"))
    /\ stream_seq' = write_seq(1)
    /\ exc' = NoExc
    /\ pc' = "finally"
    /\ UNCHANGED << config_vars, exec_vars, server_vars, result_set, conn_vars, stmt_vars, ctx, auth, command, session >>

\* Mutant of CommandFinally: reset_seq at the end of the try body, so that an
\* iteration that answered with ERR skips it.
CommandFinally_no_reset_on_error ==
    /\ pc = "finally"
    /\ stream_seq' = IF out # << >> /\ Last(out).type = "ERR" THEN stream_seq ELSE 0
    /\ IF command.type = "COM_QUIT"
       THEN /\ pc' = "closed"
            /\ session' = [session EXCEPT !.closes = @ + 1]
       ELSE /\ pc' = "cmd_read"
            /\ UNCHANGED session
    /\ UNCHANGED << config_vars, exec_vars, server_vars, result_set, conn_vars, stmt_vars, ctx, auth, command,
                    exc, out >>

\* Lines 291-292: the finally clause, then the next iteration; after COM_QUIT
\* the loop has returned and start() closes the session (lines 93-94).
CommandFinally ==
    /\ pc = "finally"
    /\ stream_seq' = 0
    /\ IF command.type = "COM_QUIT"
       THEN /\ pc' = "closed"
            /\ session' = [session EXCEPT !.closes = @ + 1]
       ELSE /\ pc' = "cmd_read"
            /\ UNCHANGED session
    /\ UNCHANGED << config_vars, exec_vars, server_vars, result_set, conn_vars, stmt_vars, ctx, auth, command, exc, out >>

-----------------------------------------------------------------------------
(* COM_CHANGE_USER *)

\* Mutant of handle_change_user: the declared username is recorded before
\* authentication.
handle_change_user_sets_username ==
    /\ pc = "dispatch"
    /\ command.type = "COM_CHANGE_USER"
    /\ database' = command.database
    /\ username' = command.username
    /\ auth' = [NoAuth EXCEPT !.username = command.username,
                              !.client_plugin_name = command.client_plugin,
                              !.first = Len(out)]
    /\ ctx' = "change_user"
    /\ pc' = "authenticate"
    /\ UNCHANGED << config_vars, exec_vars, server_vars, result_set, capabilities, stmt_vars, command, exc,
                    session, out, stream_seq >>

\* Mutant of handle_change_user: authenticate is called with the handshake's
\* plugin and state, as connection_phase calls it.
handle_change_user_resumes ==
    /\ pc = "dispatch"
    /\ command.type = "COM_CHANGE_USER"
    /\ database' = command.database
    /\ auth' = [NoAuth EXCEPT !.username = command.username,
                              !.client_plugin_name = command.client_plugin,
                              !.server_plugin = get_default_plugin,
                              !.first = Len(out)]
    /\ ctx' = "change_user"
    /\ pc' = "authenticate"
    /\ UNCHANGED << config_vars, exec_vars, server_vars, result_set, capabilities, username, stmt_vars, command, exc,
                    session, out, stream_seq >>

\* Lines 136-155: parse, record the database, call authenticate without the
\* handshake's plugin and state.
handle_change_user ==
    /\ pc = "dispatch"
    /\ command.type = "COM_CHANGE_USER"
    /\ database' = command.database
    /\ auth' = [NoAuth EXCEPT !.username = command.username,
                              !.client_plugin_name = command.client_plugin,
                              !.first = Len(out)]
    /\ ctx' = "change_user"
    /\ pc' = "authenticate"
    /\ UNCHANGED << config_vars, exec_vars, server_vars, result_set, capabilities, username, stmt_vars, command, exc,
                    session, out, stream_seq >>

\* Line 157: session.init(self) once authenticate has returned.
ChangeUserEnd ==
    /\ pc = "auth_return"
    /\ ctx = "change_user"
    /\ session' = [session EXCEPT !.inits = @ + 1]
    /\ ctx' = "none"
    /\ auth' = NoAuth
    /\ pc' = "finally"
    /\ UNCHANGED << config_vars, exec_vars, server_vars, result_set, conn_vars, stmt_vars, command, exc, out, stream_seq >>

\* Line 157: session.init raises.
ChangeUserEndRaises ==
    /\ pc = "auth_return"
    /\ ctx = "change_user"
    /\ session' = [session EXCEPT !.inits = @ + 1]
    /\ ctx' = "none"
    /\ auth' = NoAuth
    /\ Raise(OtherException(<<"SessionError">>))
    /\ UNCHANGED << config_vars, exec_vars, server_vars, result_set, conn_vars, stmt_vars, command >>

-----------------------------------------------------------------------------
(* Prepared statements *)

\* utils.seq: next(self.prepared_stmt_seq) yields the counter, which then
\* advances and wraps around at _MAX_PREPARED_STMT_ID.
seq_next(i) == (i + 1) % MAX_PREPARED_STMT_ID

\* len(REGEX_PARAM.findall(sql))
num_params(sql) == Cardinality({ i \in 1..Len(sql) : sql[i] = "?" })

PreparedStatement(stmt_id, sql) ==
    [stmt_id |-> stmt_id, sql |-> sql, num_params |-> num_params(sql),
     param_buffers |-> NoBuffers, cursor |-> NoCursor]

\* Lines 560-569.
com_stmt_prepare_response(statement) ==
    << [type |-> "COM_STMT_PREPARE_OK", stmt_id |-> statement.stmt_id,
        num_params |-> statement.num_params] >>
    \o (IF statement.num_params # 0
        THEN [i \in 1..statement.num_params |-> make_column_definition_41(<<"?">>)]
             \o << eof >>
        ELSE << >>)

\* self.prepared_stmts[stmt_id] = stmt
registry_put(stmts, stmt_id, stmt) ==
    [i \in (DOMAIN stmts) \cup {stmt_id} |-> IF i = stmt_id THEN stmt ELSE stmts[i]]

\* self.prepared_stmts.pop(stmt_id, None)
registry_pop(stmts, stmt_id) ==
    [i \in (DOMAIN stmts) \ {stmt_id} |-> stmts[i]]

\* Lines 348-367.
handle_stmt_prepare ==
    /\ pc = "dispatch"
    /\ command.type = "COM_STMT_PREPARE"
    /\ LET stmt_id == prepared_stmt_seq
           stmt == PreparedStatement(stmt_id, command.sql)
       IN /\ prepared_stmt_seq' = seq_next(prepared_stmt_seq)
          /\ prepared_stmts' = registry_put(prepared_stmts, stmt_id, stmt)
          /\ Respond(com_stmt_prepare_response(stmt))
    /\ UNCHANGED << config_vars, exec_vars, server_vars, result_set, conn_vars, ctx, auth, command, session >>

\* Lines 474-481.
handle_stmt_close ==
    /\ pc = "dispatch"
    /\ command.type = "COM_STMT_CLOSE"
    /\ prepared_stmts' = registry_pop(prepared_stmts, command.stmt_id)
    /\ pc' = "finally"
    /\ UNCHANGED << config_vars, exec_vars, server_vars, result_set, conn_vars, prepared_stmt_seq, ctx, auth, command,
                    session, out, stream_seq, exc >>

\* Mutant of unknown_statement: the error carries another code.
unknown_statement_handler(stmt_id) ==
    MysqlError(<<"Unknown statement: ", ToString(stmt_id)>>, "UNKNOWN_STMT_HANDLER")

\* Lines 483-486: the error get_stmt raises for an id that is not registered.
unknown_statement(stmt_id) ==
    MysqlError(<<"Unknown statement: ", ToString(stmt_id)>>, "UNKNOWN_PROCEDURE")

\* Lines 461-472.
handle_stmt_reset ==
    /\ pc = "dispatch"
    /\ command.type = "COM_STMT_RESET"
    /\ IF command.stmt_id \in DOMAIN prepared_stmts
       THEN /\ prepared_stmts' =
                 [prepared_stmts EXCEPT ![command.stmt_id].param_buffers = NoBuffers,
                                        ![command.stmt_id].cursor = NoCursor]
            /\ Respond(<< ok >>)
       ELSE /\ Raise(unknown_statement(command.stmt_id))
            /\ UNCHANGED prepared_stmts
    /\ UNCHANGED << config_vars, exec_vars, server_vars, result_set, conn_vars, prepared_stmt_seq, ctx, auth,
                    command, session >>

\* Mutant of buffer_extend: the payload replaces what was buffered.
buffer_extend_replaces(buffer, data) == data

\* Lines 379-382: bytearray.extend
buffer_extend(buffer, data) == buffer \o data

\* Lines 377-382: param_buffers with the payload appended to the buffer of
\* param_id, a missing buffer starting empty.
param_buffers_put(buffers, param_id, data) ==
    [i \in (DOMAIN buffers) \cup {param_id} |->
        IF i = param_id
        THEN buffer_extend(IF i \in DOMAIN buffers THEN buffers[i] ELSE << >>, data)
        ELSE buffers[i]]

\* Lines 369-382.
handle_stmt_send_long_data ==
    /\ pc = "dispatch"
    /\ command.type = "COM_STMT_SEND_LONG_DATA"
    /\ IF command.stmt_id \in DOMAIN prepared_stmts
       THEN /\ prepared_stmts' =
                 [prepared_stmts EXCEPT ![command.stmt_id].param_buffers =
                     param_buffers_put(@, command.param_id, command.data)]
            /\ pc' = "finally"
            /\ UNCHANGED << out, stream_seq, exc >>
       ELSE /\ Raise(unknown_statement(command.stmt_id))
            /\ UNCHANGED prepared_stmts
    /\ UNCHANGED << config_vars, exec_vars, server_vars, result_set, conn_vars,
                    prepared_stmt_seq, ctx, auth, command, session >>

make_binary_resultrow(row) == [type |-> "BinaryRow", row |-> row]

SERVER_STATUS_CURSOR_EXISTS == "SERVER_STATUS_CURSOR_EXISTS"
SERVER_STATUS_LAST_ROW_SENT == "SERVER_STATUS_LAST_ROW_SENT"

\* Lines 407-417: the column count and the column definitions.
resultset_header(rs) ==
    << make_column_count(Len(rs.columns)) >>
    \o [i \in 1..Len(rs.columns) |-> make_column_definition_41(rs.columns[i])]

\* Mutant of binary_rows: the rows are produced last first.
binary_rows_reversed(rs) ==
    [i \in 1..Len(rs.rows) |-> make_binary_resultrow(rs.rows[Len(rs.rows) + 1 - i])]

\* Lines 419-422: the generator of the binary rows.
binary_rows(rs) == [i \in 1..Len(rs.rows) |-> make_binary_resultrow(rs.rows[i])]

\* Lines 384-434.  parse_com_stmt_execute looks the statement up with
\* get_stmt and reads its long-data buffers; line 397 then drops them.
handle_stmt_execute ==
    /\ pc = "dispatch"
    /\ command.type = "COM_STMT_EXECUTE"
    /\ IF command.stmt_id \notin DOMAIN prepared_stmts
       THEN /\ Raise(unknown_statement(command.stmt_id))
            /\ UNCHANGED << prepared_stmts, exec_params, result_set >>
       ELSE LET s == command.stmt_id
                cleared == [prepared_stmts EXCEPT ![s].param_buffers = NoBuffers]
            IN /\ exec_params' = prepared_stmts[s].param_buffers
               /\ \/ \E e \in QueryErrors :
                       /\ prepared_stmts' = cleared
                       /\ Raise(e)
                       /\ UNCHANGED result_set
                  \/ \E rs \in QueryResults :
                       /\ result_set' = rs
                       /\ IF ~result_set_truthy(rs)
                          THEN /\ prepared_stmts' = cleared
                               /\ Respond(<< ok >>)
                          ELSE IF command.use_cursor
                          THEN /\ prepared_stmts' =
                                    [cleared EXCEPT ![s].cursor =
                                        [open |-> TRUE, rows |-> binary_rows(rs)]]
                               /\ Respond(resultset_header(rs)
                                     \o << ok_or_eof(0, {SERVER_STATUS_CURSOR_EXISTS}) >>)
                          ELSE /\ prepared_stmts' = cleared
                               /\ Respond(resultset_header(rs)
                                     \o (IF ~deprecate_eof THEN << eof >> ELSE << >>)
                                     \o binary_rows(rs)
                                     \o << ok_or_eof(0, {}) >>)
    /\ UNCHANGED << config_vars, long_data_sent, cursor_log, server_vars, conn_vars,
                    prepared_stmt_seq, ctx, auth, command, session >>

\* Mutant of fetch_done: done as soon as the rows asked for were all there.
fetch_done_inclusive(count, num_rows) == count <= num_rows

\* Line 451: done = count < com_stmt_fetch.num_rows
fetch_done(count, num_rows) == count < num_rows

\* Line 447: the rows zip(range(num_rows), stmt.cursor) takes from the cursor.
fetch_count(num_rows, rows) == IF num_rows < Len(rows) THEN num_rows ELSE Len(rows)

\* Mutant of handle_stmt_fetch: the cursor is not advanced, every fetch starts
\* again at the first unsent row of the first fetch.
handle_stmt_fetch_rewinds ==
    /\ pc = "dispatch"
    /\ command.type = "COM_STMT_FETCH"
    /\ IF command.stmt_id \notin DOMAIN prepared_stmts
       THEN Raise(unknown_statement(command.stmt_id))
       ELSE IF ~prepared_stmts[command.stmt_id].cursor.open
       THEN Raise(OtherException(<<"AssertionError">>))
       ELSE LET rows == prepared_stmts[command.stmt_id].cursor.rows
                count == fetch_count(command.num_rows, rows)
                done == fetch_done(count, command.num_rows)
            IN Respond(SubSeq(rows, 1, count)
                     \o << ok_or_eof(0, IF done
                                        THEN {SERVER_STATUS_LAST_ROW_SENT}
                                        ELSE {SERVER_STATUS_CURSOR_EXISTS}) >>)
    /\ UNCHANGED << config_vars, exec_vars, server_vars, result_set, conn_vars,
                    prepared_stmts, prepared_stmt_seq, ctx, auth, command, session >>

\* Lines 436-459.
handle_stmt_fetch ==
    /\ pc = "dispatch"
    /\ command.type = "COM_STMT_FETCH"
    /\ IF command.stmt_id \notin DOMAIN prepared_stmts
       THEN /\ Raise(unknown_statement(command.stmt_id))
            /\ UNCHANGED prepared_stmts
       ELSE IF ~prepared_stmts[command.stmt_id].cursor.open
       THEN \* assert stmt.cursor is not None
            /\ Raise(OtherException(<<"AssertionError">>))
            /\ UNCHANGED prepared_stmts
       ELSE LET s == command.stmt_id
                rows == prepared_stmts[s].cursor.rows
                count == fetch_count(command.num_rows, rows)
                done == fetch_done(count, command.num_rows)
            IN /\ prepared_stmts' =
                    [prepared_stmts EXCEPT ![s].cursor.rows =
                        SubSeq(rows, count + 1, Len(rows))]
               /\ Respond(SubSeq(rows, 1, count)
                     \o << ok_or_eof(0, IF done
                                        THEN {SERVER_STATUS_LAST_ROW_SENT}
                                        ELSE {SERVER_STATUS_CURSOR_EXISTS}) >>)
    /\ UNCHANGED << config_vars, exec_vars, server_vars, result_set, conn_vars,
                    prepared_stmt_seq, ctx, auth, command, session >>

-----------------------------------------------------------------------------
\* The steps of the connection phase and of the auth engine.
ConnectionPhase ==
    \/ ConnectionPhaseStart
    \/ HandshakeResponse
    \/ HandshakeResponseClosed
    \/ AuthenticateUnknownUser
    \/ AuthenticateKnownUser
    \/ AuthRead
    \/ AuthReadClosed
    \/ AuthMoreData
    \/ AuthDecided
    \/ ConnectionPhaseEnd
    \/ SessionInit
    \/ SessionInitRaises

\* The steps of the command loop around the handlers.
CommandLoop ==
    \/ CommandRead
    \/ CommandReadClosed
    \/ CommandReadFails
    \/ CommandExcept
    \/ CommandFinally

\* A connection whose client authenticates, queries and controls the session.
Init == InitConnection("session")

Next ==
    \/ ConnectionPhase
    \/ CommandLoop
    \/ handle_ping
    \/ handle_reset_connection
    \/ handle_debug
    \/ handle_query
    \/ handle_quit
    \/ handle_other
    \/ handle_change_user
    \/ ChangeUserEnd
    \/ ChangeUserEndRaises

Spec == Init /\ [][Next]_vars

\* A connection whose client works with prepared statements.
InitStmt == InitConnection("stmt")

NextStmt ==
    \/ ConnectionPhase
    \/ CommandLoop
    \/ handle_quit
    \/ handle_reset_connection
    \/ handle_stmt_prepare
    \/ handle_stmt_reset
    \/ handle_stmt_close

SpecStmt == InitStmt /\ [][NextStmt]_vars

\* The connection at its first command-phase read, after the handshake of
\* user levon_helm was accepted and session.init returned, with a client
\* following `script`.
InitCommandPhase(script) ==
    /\ pc = "cmd_read"
    /\ ctx = "none"
    /\ auth_plugins = <<"gullible", "native">>
    /\ handshake_auth_data = "nonce"
    /\ handshake_auth_plugin = PluginName("gullible")
    /\ capabilities \in SUBSET server_capabilities
    /\ username = "levon_helm"
    /\ database = None
    /\ auth = NoAuth
    /\ stream_seq = 0
    /\ out = << make_handshake_v10("gullible", "nonce"), ok >>
    /\ command = NoCommand
    /\ exc = NoExc
    /\ prepared_stmt_seq = 0
    /\ prepared_stmts = << >>
    /\ session = [inits |-> 1, closes |-> 0]
    /\ client = script
    /\ result_set = NoResultSet
    /\ long_data_sent = NoSent
    /\ cursor_log = NoLog
    /\ exec_params = NoBuffers
    /\ ServerIdle

\* A connection in the command phase whose client sends long data, executes
\* and fetches.
InitLongData == InitCommandPhase("longdata")

NextLongData ==
    \/ CommandLoop
    \/ handle_quit
    \/ handle_reset_connection
    \/ handle_stmt_prepare
    \/ handle_stmt_send_long_data
    \/ handle_stmt_execute
    \/ handle_stmt_fetch
    \/ handle_stmt_reset
    \/ handle_stmt_close

SpecLongData == InitLongData /\ [][NextLongData]_vars

\* A connection in the command phase whose client executes with cursors and
\* fetches.
InitCursor == InitCommandPhase("cursor")

NextCursor ==
    \/ CommandLoop
    \/ handle_quit
    \/ handle_stmt_prepare
    \/ handle_stmt_execute
    \/ handle_stmt_fetch
    \/ handle_stmt_reset
    \/ handle_stmt_close

SpecCursor == InitCursor /\ [][NextCursor]_vars

-----------------------------------------------------------------------------
(* MysqlServer: connection ids (src/mysql_mimic/server.py) *)

\* server_id or _get_server_id(): a value below _MAX_SERVER_ID.
ServerIds == 0..(MAX_SERVER_ID - 1)

\* The connections a server may be running at once; MAX_CONNECTION_SEQ + 1 of
\* them let the map fill up and one more client arrive.
Conns == 1..(MAX_CONNECTION_SEQ + 1)

\* utils.seq: next(self._connection_seq) wraps around at _MAX_CONNECTION_SEQ.
connection_seq_next(i) == (i + 1) % MAX_CONNECTION_SEQ

\* Lines 100-102: (server_id % _MAX_SERVER_ID) << _CONNECTION_ID_BITS
server_id_prefix == (server_id % MAX_SERVER_ID) * MAX_CONNECTION_SEQ

\* Mutant of max_connections_exceeded: one connection too many is let in.
max_connections_exceeded_late(n) == n > MAX_CONNECTION_SEQ

\* Line 98: len(self._connections) >= self._MAX_CONNECTION_SEQ
max_connections_exceeded(n) == n >= MAX_CONNECTION_SEQ

\* Mutant of is_live: no id is taken to be live.
is_live_never(connection_id) == FALSE

\* Line 108: connection_id in self._connections
is_live(connection_id) == connection_id \in DOMAIN connections

\* Lines 104-109: draw values of the sequence until the id is not live.  s is
\* the value just drawn, n the values drawn so far; once every value of the
\* sequence has been drawn and found live the loop never ends.
RECURSIVE skip_live(_, _)
skip_live(s, n) ==
    IF ~is_live(server_id_prefix + s)
    THEN [kind |-> "id", id |-> server_id_prefix + s, seq |-> connection_seq_next(s)]
    ELSE IF n >= MAX_CONNECTION_SEQ
    THEN [kind |-> "hang", id |-> 0, seq |-> connection_seq_next(s)]
    ELSE skip_live(connection_seq_next(s), n + 1)

\* Lines 81-111.
get_connection_id ==
    IF max_connections_exceeded(Cardinality(DOMAIN connections))
    THEN [kind |-> "MaxConnectionsExceeded", id |-> 0, seq |-> connection_seq]
    ELSE skip_live(connection_seq, 1)

\* Lines 61-72: a client connects; an id is allocated, the Connection is
\* constructed and put in the map; the callback then awaits connection.start().
\* If _get_connection_id raises (or never returns) nothing else happens.
client_connected_cb(c) ==
    /\ c \notin DOMAIN tasks
    /\ LET r == get_connection_id
       IN /\ connection_seq' = r.seq
          /\ accepted' = [kind |-> r.kind, id |-> r.id, conn |-> c]
          /\ IF r.kind = "id"
             THEN /\ connections' = registry_put(connections, r.id, c)
                  /\ tasks' = registry_put(tasks, c, r.id)
             ELSE UNCHANGED << connections, tasks >>
    /\ UNCHANGED << server_id, released, pc, ctx, config_vars, conn_vars, stmt_vars, exec_vars,
                    auth, stream_seq, out, command, exc, session, result_set >>

\* Lines 64-71: the id is allocated but the Connection constructor raises
\* (server.py passes auth_plugins=, which Connection.__init__ of connection.py
\* does not take): the id is used up and the map is left as it was.
client_connected_cb_raises(c) ==
    /\ c \notin DOMAIN tasks
    /\ LET r == get_connection_id
       IN /\ r.kind = "id"
          /\ connection_seq' = r.seq
          /\ accepted' = [kind |-> "TypeError", id |-> r.id, conn |-> c]
    /\ UNCHANGED << connections, tasks >>
    /\ UNCHANGED << server_id, released, pc, ctx, config_vars, conn_vars, stmt_vars, exec_vars,
                    auth, stream_seq, out, command, exc, session, result_set >>

\* How connection.start() may end.
StartOutcomes == {"returned", "raised"}

\* Mutant of connection_done: the id is popped only when start() returns.
connection_done_no_finally(c) ==
    /\ c \in DOMAIN tasks
    /\ \E outcome \in StartOutcomes :
         /\ accepted' = [kind |-> outcome, id |-> tasks[c], conn |-> c]
         /\ IF outcome = "returned"
            THEN /\ connections' = registry_pop(connections, tasks[c])
                 /\ released' = released \cup {tasks[c]}
            ELSE UNCHANGED << connections, released >>
    /\ tasks' = registry_pop(tasks, c)
    /\ UNCHANGED << server_id, connection_seq >>
    /\ UNCHANGED << pc, ctx, config_vars, conn_vars, stmt_vars, exec_vars,
                    auth, stream_seq, out, command, exc, session, result_set >>

\* Lines 73-76: connection.start() ends, by returning or by raising, and the
\* finally clause pops the id.
connection_done(c) ==
    /\ c \in DOMAIN tasks
    /\ \E outcome \in StartOutcomes :
         accepted' = [kind |-> outcome, id |-> tasks[c], conn |-> c]
    /\ connections' = registry_pop(connections, tasks[c])
    /\ released' = released \cup {tasks[c]}
    /\ tasks' = registry_pop(tasks, c)
    /\ UNCHANGED << server_id, connection_seq >>
    /\ UNCHANGED << pc, ctx, config_vars, conn_vars, stmt_vars, exec_vars,
                    auth, stream_seq, out, command, exc, session, result_set >>

ClientConnected == \E c \in Conns : client_connected_cb(c)

ClientConnectedRaises == \E c \in Conns : client_connected_cb_raises(c)

ConnectionDone == \E c \in Conns : connection_done(c)

\* A server accepting clients; the connections themselves are not run.
InitServer ==
    /\ NewConnection("server")
    /\ server_id \in ServerIds
    /\ connection_seq = 0
    /\ connections = << >>
    /\ tasks = << >>
    /\ accepted = NoAccept
    /\ released = {}

NextServer ==
    \/ ClientConnected
    \/ ClientConnectedRaises
    \/ ConnectionDone

SpecServer == InitServer /\ [][NextServer]_vars

-----------------------------------------------------------------------------
(* Properties *)

\* The packets the running authenticate call has written so far.
AuthRun == SubSeq(out, auth.first + 1, Len(out))

IsTerminalPacket(p) == p.type \in {"OK", "ERR"}

Count(packets, type) == Cardinality({ i \in 1..Len(packets) : packets[i].type = type })

\* The handshake's authenticate ended with ERR and no command was read since.
HandshakeRefused ==
    /\ out # << >>
    /\ out[1].type = "HandshakeV10"
    /\ Last(out).type = "ERR"
    /\ Last(out).code \in {"ACCESS_DENIED_ERROR", "USER_DOES_NOT_EXIST"}

\* C1: once the handshake's authentication has ended with ERR (Forbidden or
\* unknown user) the connection is closed: session.init is not called and the
\* connection never waits for a command packet.
C1_RefusedHandshakeClosesConnection ==
    HandshakeRefused => (session.inits = 0 /\ pc # "cmd_read")

\* C2: when authenticate returns, the packets it wrote end with exactly one
\* terminal packet (OK or ERR), which is its last: OK for Success, ERR
\* ACCESS_DENIED_ERROR for Forbidden, ERR USER_DOES_NOT_EXIST with the message
\* "User <name> does not exist" for an unknown user, in which case no plugin
\* was started and nothing else was written.
C2_OneTerminalPacket ==
    pc = "auth_return" =>
        /\ Len(AuthRun) >= 1
        /\ IsTerminalPacket(Last(AuthRun))
        /\ \A i \in 1..(Len(AuthRun) - 1) : ~IsTerminalPacket(AuthRun[i])
        /\ IF get_user(auth.username) = None
           THEN /\ AuthRun = << error_packet(<<"User ", auth.username, " does not exist">>,
                                             "USER_DOES_NOT_EXIST") >>
                /\ auth.user_plugin = None
                /\ auth.decision = NoDecision
           ELSE /\ auth.decision.kind \in {"Success", "Forbidden"}
                /\ auth.decision.kind = "Success" => Last(AuthRun) = ok
                /\ auth.decision.kind = "Forbidden" =>
                     /\ Last(AuthRun).type = "ERR"
                     /\ Last(AuthRun).code = "ACCESS_DENIED_ERROR"

C2_Witness ==
    /\ pc = "auth_return"
    /\ auth.decision.kind = "Forbidden"
    /\ Len(AuthRun) = 3
    /\ AuthRun[1].type = "AuthSwitchRequest"

\* C3: the username changes only in the step where authenticate decides
\* Success, and then becomes that decision's authenticated_as; a run that
\* ends with ERR leaves it as it was.
C3_UsernameSetOnlyBySuccess ==
    [][ /\ username' # username =>
             (pc = "auth_loop" /\ auth.decision.kind = "Success")
        /\ (pc = "auth_loop" /\ pc' = "auth_return") =>
             username' = IF auth.decision.kind = "Success"
                         THEN auth.decision.authenticated_as
                         ELSE username
        /\ (pc = "authenticate" /\ pc' = "auth_return") => username' = username
      ]_vars

C3_Witness ==
    /\ pc = "finally"
    /\ command.type = "COM_CHANGE_USER"
    /\ Last(out) = ok
    /\ username = "proxy_user"
    /\ command.username = "rick_danko"

\* C4: after a CHANGE_USER whose authentication was refused with ERR,
\* session.init is not called.
C4_RefusedChangeUserSkipsSessionInit ==
    [][ (pc = "auth_return" /\ ctx = "change_user" /\ Last(out).type = "ERR")
            => session'.inits = session.inits ]_vars

\* The case of C5: in the handshake, the server's default plugin has the name
\* of the user's plugin and needs no client plugin or the one the client declared.
HandshakeFastPathCase ==
    /\ ctx = "handshake"
    /\ auth.user_plugin # None
    /\ PluginName(get_default_plugin) = PluginName(auth.user_plugin)
    /\ PluginClientPluginName(get_default_plugin) \in {None, auth.client_plugin_name}

\* C5: in that case the handshake's auth state is resumed and no
\* AuthSwitchRequest is written during the handshake.
C5_FastPathNoSwitch ==
    HandshakeFastPathCase =>
        /\ auth.path = "fast"
        /\ Count(out, "AuthSwitchRequest") = 0

C5_Witness ==
    /\ HandshakeFastPathCase
    /\ pc = "auth_return"
    /\ auth.rounds = 1
    /\ auth.decision.kind = "Success"
    /\ auth.client_plugin_name = "mysql_native_password"

\* The case of C6: the user's plugin is not the server default and needs a
\* client plugin other than the one the client declared.
AuthSwitchCase ==
    /\ auth.user_plugin # None
    /\ PluginName(auth.user_plugin) # PluginName(get_default_plugin)
    /\ PluginClientPluginName(auth.user_plugin) \notin {None, auth.client_plugin_name}

\* C6 as stated: in that case the run writes exactly one AuthSwitchRequest,
\* before the OK or ERR that ends it.
C6_ExactlyOneSwitch ==
    (pc = "auth_return" /\ AuthSwitchCase) =>
        /\ Count(AuthRun, "AuthSwitchRequest") = 1
        /\ AuthRun[1].type = "AuthSwitchRequest"

\* C6 amended: in that case, when the plugin started without client data first
\* yields bytes, the run writes exactly one AuthSwitchRequest, naming the
\* client plugin and carrying those bytes, as its first packet and before
\* the OK or ERR that ends it; when the plugin's first yield is already
\* Success or Forbidden, no AuthSwitchRequest is written.
C6_OneSwitchWhenChallenged ==
    (pc = "auth_return" /\ AuthSwitchCase) =>
        IF auth.first_yield.kind = "bytes"
        THEN /\ Count(AuthRun, "AuthSwitchRequest") = 1
             /\ AuthRun[1] = make_auth_switch_request(
                                 PluginClientPluginName(auth.user_plugin),
                                 auth.first_yield.data)
             /\ Len(AuthRun) >= 2
             /\ IsTerminalPacket(Last(AuthRun))
        ELSE /\ Count(AuthRun, "AuthSwitchRequest") = 0
             /\ auth.first_yield.kind \in {"Success", "Forbidden"}

C6_Witness ==
    /\ pc = "auth_return"
    /\ AuthSwitchCase
    /\ auth.first_yield.kind = "bytes"
    /\ ctx = "handshake"
    /\ Count(AuthRun, "AuthMoreData") = 1
    /\ Last(AuthRun) = ok

\* The ERR the command loop writes for an exception.
ErrFor(e) ==
    IF e.kind = "MysqlError"
    THEN error_packet(e.msg, e.code)
    ELSE error_packet(e.msg, "ER_UNKNOWN_ERROR")

\* C7: an error raised while a command is handled is caught in that
\* iteration: exactly one ERR is appended, with the code and message of a
\* MysqlError (UNKNOWN_COM_ERROR for an unrecognized command byte) and generic
\* otherwise, and the loop goes on to read the next command.
C7_CommandErrorsAreCaught ==
    [][ /\ pc = "except" =>
             /\ exc.kind \in {"MysqlError", "Exception"}
             /\ out' = Append(out, ErrFor(exc))
             /\ pc' = "finally"
        /\ (pc = "dispatch" /\ command.type = "COM_SLEEP") =>
             /\ pc' = "except"
             /\ exc'.kind = "MysqlError"
             /\ exc'.code = "UNKNOWN_COM_ERROR"
        /\ (pc = "finally" /\ command.type # "COM_QUIT") => pc' = "cmd_read"
        /\ (ctx = "change_user" /\ pc # "auth_return") =>
             pc' \in {"auth_loop", "auth_switch_read", "auth_more_read",
                      "auth_return", "except"}
        /\ pc = "dispatch" =>
             pc' \in {"finally", "except", "authenticate"}
      ]_vars

C7_Witness ==
    /\ pc = "cmd_read"
    /\ Len(out) = 1
    /\ out[1].type = "ERR"
    /\ out[1].code = "ER_UNKNOWN_ERROR"
    /\ command.type = "COM_QUERY"

\* C8: the sequence counter is 0 whenever the connection waits for a new
\* command and when the loop has ended; it is reset when the handshake's
\* authenticate has returned and in the finally clause of every iteration,
\* after the iteration's last write, and a new command is read only after
\* that reset.
C8_SequenceDiscipline ==
    /\ [](pc \in {"cmd_read", "closed"} => stream_seq = 0)
    /\ [][ /\ pc = "finally" => (stream_seq' = 0 /\ out' = out)
           /\ (pc = "auth_return" /\ ctx = "handshake") =>
                (stream_seq' = 0 /\ out' = out)
           /\ pc' = "cmd_read" => pc \in {"finally", "session_init"}
           /\ pc \in {"finally", "cmd_read"} => Len(out') <= Len(out)
         ]_vars

C8_Witness ==
    /\ pc = "cmd_read"
    /\ Len(out) = 2
    /\ out[1].type = "ERR"
    /\ out[2].type = "ERR"
    /\ command.type = "COM_CHANGE_USER"

\* C9: STMT_PREPARE allocates an id that no live statement has, so it adds a
\* statement to the registry and leaves every live statement in it.
C9_PrepareNeverReplacesLive ==
    [][ (pc = "dispatch" /\ command.type = "COM_STMT_PREPARE") =>
            /\ Cardinality(DOMAIN prepared_stmts') = Cardinality(DOMAIN prepared_stmts) + 1
            /\ DOMAIN prepared_stmts \subseteq DOMAIN prepared_stmts'
      ]_vars

\* C10: a text resultset for N columns and R rows is, in order, the column
\* count, N column definitions, an EOF only when DEPRECATE_EOF is off, R rows
\* and one terminating packet; with DEPRECATE_EOF off it holds exactly two
\* EOF packets, with it on none and the last packet is an OK with the eof marker.
C10_TextResultsetShape ==
    (pc = "finally" /\ command.type = "COM_QUERY" /\ result_set_truthy(result_set)) =>
        LET N == Len(result_set.columns)
            R == Len(result_set.rows)
            gate == IF deprecate_eof THEN 0 ELSE 1
        IN /\ Len(out) = 1 + N + gate + R + 1
           /\ out[1] = make_column_count(N)
           /\ \A i \in 1..N : out[1 + i] = make_column_definition_41(result_set.columns[i])
           /\ ~deprecate_eof => out[N + 2] = eof
           /\ \A i \in 1..R : out[1 + N + gate + i] = make_text_resultset_row(result_set.rows[i])
           /\ IF deprecate_eof
              THEN /\ Count(out, "EOF") = 0
                   /\ Last(out).type = "OK"
                   /\ Last(out).eof = TRUE
                   /\ Last(out).affected_rows = R
              ELSE /\ Count(out, "EOF") = 2
                   /\ Last(out).type = "EOF"

C10_Witness ==
    /\ pc = "finally"
    /\ command.type = "COM_QUERY"
    /\ result_set = ResultSet(2, 2)
    /\ deprecate_eof
    /\ Len(out) = 6

\* C11: the response to STMT_PREPARE of a statement with P parameters is
\* COM_STMT_PREPARE_OK, then exactly P column definitions named '?', then an
\* EOF if and only if DEPRECATE_EOF is not negotiated.
C11_PrepareResponseShape ==
    (pc = "finally" /\ command.type = "COM_STMT_PREPARE") =>
        LET P == num_params(command.sql)
        IN /\ Len(out) = 1 + P + (IF deprecate_eof THEN 0 ELSE 1)
           /\ out[1].type = "COM_STMT_PREPARE_OK"
           /\ \A i \in 2..(P + 1) : out[i] = make_column_definition_41(<<"?">>)
           /\ ~deprecate_eof => Last(out).type = "EOF"

\* The case of C12: STMT_FETCH of a live statement whose cursor is open.
FetchCase ==
    /\ pc = "dispatch"
    /\ command.type = "COM_STMT_FETCH"
    /\ command.stmt_id \in DOMAIN prepared_stmts
    /\ prepared_stmts[command.stmt_id].cursor.open

Min(a, b) == IF a < b THEN a ELSE b

\* What C12 says of every fetch: min(n,k) row packets, the first unsent rows of
\* the cursor in order, then one OK/EOF, and the rows sent leave the cursor.
FetchRows ==
    LET rows == prepared_stmts[command.stmt_id].cursor.rows
        m == Min(command.num_rows, Len(rows))
    IN /\ Len(out') = m + 1
       /\ \A i \in 1..m : out'[i] = rows[i] /\ out'[i].type = "BinaryRow"
       /\ Last(out').type = IF deprecate_eof THEN "OK" ELSE "EOF"
       /\ prepared_stmts'[command.stmt_id].cursor.rows = SubSeq(rows, m + 1, Len(rows))

\* C12 as stated: the closing OK/EOF carries LAST_ROW_SENT if and only if the
\* cursor has no unsent rows left after the fetch, and CURSOR_EXISTS otherwise.
C12_LastRowSentIffDrained ==
    [][ FetchCase =>
          /\ FetchRows
          /\ Last(out').flags =
                IF prepared_stmts'[command.stmt_id].cursor.rows = << >>
                THEN {SERVER_STATUS_LAST_ROW_SENT}
                ELSE {SERVER_STATUS_CURSOR_EXISTS}
      ]_vars

\* C12, amended: STMT_FETCH n on a cursor holding k unsent rows writes
\* min(n,k) row packets and one OK/EOF whose flag is LAST_ROW_SENT if and only
\* if the cursor ran out before n rows were written (k < n), and CURSOR_EXISTS
\* otherwise, also when the fetch took the last rows (k = n).
C12_LastRowSentIffShort ==
    [][ FetchCase =>
          /\ FetchRows
          /\ Last(out').flags =
                IF Len(prepared_stmts[command.stmt_id].cursor.rows) < command.num_rows
                THEN {SERVER_STATUS_LAST_ROW_SENT}
                ELSE {SERVER_STATUS_CURSOR_EXISTS}
      ]_vars

\* A fetch of exactly the rows the cursor held: both rows were written, the
\* cursor is empty and the flag is CURSOR_EXISTS.
C12_Witness ==
    /\ pc = "finally"
    /\ command.type = "COM_STMT_FETCH"
    /\ command.num_rows = 2
    /\ Len(out) = 3
    /\ out[1].type = "BinaryRow"
    /\ out[2].type = "BinaryRow"
    /\ Last(out).flags = {SERVER_STATUS_CURSOR_EXISTS}
    /\ command.stmt_id \in DOMAIN prepared_stmts
    /\ prepared_stmts[command.stmt_id].cursor.open
    /\ prepared_stmts[command.stmt_id].cursor.rows = << >>

\* The case of C13 and C19: STMT_EXECUTE of a live statement.
ExecuteCase ==
    /\ pc = "dispatch"
    /\ command.type = "COM_STMT_EXECUTE"
    /\ command.stmt_id \in DOMAIN prepared_stmts

\* STMT_SEND_LONG_DATA for a live statement.
SendLongDataCase ==
    /\ pc = "dispatch"
    /\ command.type = "COM_STMT_SEND_LONG_DATA"
    /\ command.stmt_id \in DOMAIN prepared_stmts

\* The bytes buffered for parameter i, none if it has no buffer.
BufferOf(buffers, i) == IF i \in DOMAIN buffers THEN buffers[i] ELSE << >>

\* The payloads of a sequence of packets, concatenated in order.
RECURSIVE Concat(_)
Concat(payloads) ==
    IF payloads = << >> THEN << >> ELSE Head(payloads) \o Concat(Tail(payloads))

\* C13: at STMT_EXECUTE of statement s the buffer of each parameter i is the
\* concatenation, in arrival order, of the payloads the client sent for (s, i)
\* since the last STMT_EXECUTE or STMT_RESET of s; the execute clears all
\* buffers of s; long data and executes leave the buffers of other statements
\* and parameters as they were.
C13_LongDataAccumulates ==
    [][ /\ ExecuteCase =>
             LET s == command.stmt_id
             IN /\ DOMAIN exec_params' \subseteq ParamIds
                /\ \A i \in ParamIds :
                      BufferOf(exec_params', i) = Concat(long_data_sent[s][i])
                /\ prepared_stmts'[s].param_buffers = NoBuffers
                /\ \A t \in DOMAIN prepared_stmts \ {s} :
                      prepared_stmts'[t].param_buffers = prepared_stmts[t].param_buffers
        /\ SendLongDataCase =>
             LET s == command.stmt_id
             IN /\ \A i \in ParamIds \ {command.param_id} :
                      BufferOf(prepared_stmts'[s].param_buffers, i)
                        = BufferOf(prepared_stmts[s].param_buffers, i)
                /\ \A t \in DOMAIN prepared_stmts \ {s} :
                      prepared_stmts'[t].param_buffers = prepared_stmts[t].param_buffers
      ]_vars

\* An execute that found two payloads joined in arrival order on one
\* parameter and has cleared the buffers, with a second statement live.
C13_Witness ==
    /\ pc = "finally"
    /\ command.type = "COM_STMT_EXECUTE"
    /\ BufferOf(exec_params, 0) = <<"b", "c", "a">>
    /\ BufferOf(exec_params, 1) = << >>
    /\ command.stmt_id \in DOMAIN prepared_stmts
    /\ prepared_stmts[command.stmt_id].param_buffers = NoBuffers
    /\ Cardinality(DOMAIN prepared_stmts) = 2

\* A _client_connected_cb call is made.
AcceptStep == ClientConnected \/ ClientConnectedRaises

\* C14: no two connections that are live at the same time have the same id,
\* the map holds exactly the live connections under their ids, and every id
\* allocated has the server id in its high part and the value drawn from the
\* per-server sequence in its low part.
C14_LiveConnectionIdsUnique ==
    /\ [](\A c1, c2 \in DOMAIN tasks : tasks[c1] = tasks[c2] => c1 = c2)
    /\ [](/\ DOMAIN connections = { tasks[c] : c \in DOMAIN tasks }
          /\ \A c \in DOMAIN tasks : connections[tasks[c]] = c)
    /\ [][ (AcceptStep /\ accepted'.kind \in {"id", "TypeError"}) =>
             /\ accepted'.id \div MAX_CONNECTION_SEQ = server_id
             /\ connection_seq' = connection_seq_next(accepted'.id % MAX_CONNECTION_SEQ)
          ]_vars

\* The sequence has wrapped around and a live id was skipped: connections 1
\* and 3 hold the first and the last id of the sequence, and connection 2,
\* accepted after them with the sequence back at its first value, got the
\* id in between.
C14_Witness ==
    /\ server_id = 1
    /\ DOMAIN tasks = {1, 2, 3}
    /\ tasks[1] = server_id_prefix
    /\ tasks[3] = server_id_prefix + 2
    /\ tasks[2] = server_id_prefix + 1
    /\ accepted = [kind |-> "id", id |-> server_id_prefix + 1, conn |-> 2]
    /\ connection_seq = 2

\* C15: allocating a connection id raises MaxConnectionsExceeded exactly when
\* the number of live connections has reached the size of the sequence, and
\* then leaves the map unchanged; with fewer live connections the search ends
\* and returns an id that is not in the map.
C15_MaxConnectionsExceeded ==
    [][ AcceptStep =>
          /\ (accepted'.kind = "MaxConnectionsExceeded")
               <=> (Cardinality(DOMAIN tasks) >= MAX_CONNECTION_SEQ)
          /\ accepted'.kind = "MaxConnectionsExceeded" =>
               UNCHANGED << connections, tasks, connection_seq >>
          /\ accepted'.kind # "MaxConnectionsExceeded" =>
               /\ accepted'.kind \in {"id", "TypeError"}
               /\ accepted'.id \notin DOMAIN connections
      ]_vars

\* A client was turned away while as many connections as the sequence has
\* values were live.
C15_Witness ==
    /\ accepted.kind = "MaxConnectionsExceeded"
    /\ Cardinality(DOMAIN connections) = MAX_CONNECTION_SEQ
    /\ accepted.conn \notin DOMAIN tasks

\* C16: whenever start() has ended, by COM_QUIT, by the stream closing, by an
\* exception leaving the command loop or by a failure of the handshake or of
\* session.init, session.close() has been called exactly once.
C16_SessionClosedOnTeardown ==
    pc \in {"closed", "raised"} => session.closes = 1

\* start() has entered command_phase and has not ended.
InCommandLoop == session.inits >= 1 /\ pc \notin {"session_init", "closed", "raised"}

\* C17: the command loop ends exactly when COM_QUIT is received or the read of
\* the next command fails with ConnectionClosed; COM_QUIT writes no packet;
\* every other command, handled or answered with ERR, is followed by another
\* read.
C17_LoopEndsOnQuitOrClose ==
    [][ /\ (InCommandLoop /\ pc' \in {"closed", "raised"}) =>
             /\ pc' = "closed"
             /\ \/ pc = "cmd_read"
                \/ pc = "finally" /\ command.type = "COM_QUIT"
        /\ (pc = "finally" /\ command.type = "COM_QUIT") =>
             (out = << >> /\ pc' = "closed")
        /\ (pc = "finally" /\ command.type # "COM_QUIT") => pc' = "cmd_read"
        /\ (pc = "except") => pc' = "finally"
      ]_vars

\* An exception is raised in connection_phase or by session.init.
HandshakeFails ==
    \/ HandshakeResponseClosed
    \/ SessionInitRaises
    \/ ctx = "handshake" /\ AuthReadClosed
    \/ ConnectionPhaseStart /\ pc' # "hs_read"

\* C18: an exception raised during the connection phase or by session.init
\* writes one ERR with HANDSHAKE_ERROR and leaves start(): the command phase
\* is not entered, then or later.
C18_HandshakeErrorTerminates ==
    [][ /\ HandshakeFails =>
             /\ pc' = "raised"
             /\ Len(out') = Len(out) + 1
             /\ Last(out').type = "ERR"
             /\ Last(out').code = "HANDSHAKE_ERROR"
        /\ pc = "raised" => pc' = "raised"
      ]_vars

\* session.init raised after the handshake was accepted: the OK of the
\* handshake is followed by the ERR and start() has ended.
C18_Witness ==
    /\ pc = "raised"
    /\ session.inits = 1
    /\ Len(out) = 3
    /\ out[2] = ok
    /\ out[3] = error_packet(<<"SessionError">>, "HANDSHAKE_ERROR")

\* The command being handled is a STMT_EXECUTE, STMT_FETCH or STMT_RESET that
\* names a statement id not in the registry.
UnknownStatementCase ==
    /\ command.type \in {"COM_STMT_EXECUTE", "COM_STMT_FETCH", "COM_STMT_RESET"}
    /\ command.stmt_id \notin DOMAIN prepared_stmts

\* C19: STMT_EXECUTE, STMT_FETCH and STMT_RESET naming an unknown statement
\* fail with one ERR carrying UNKNOWN_PROCEDURE, write no other packet, and
\* leave the registry with its long-data buffers and cursors as it was.
C19_UnknownStatementFails ==
    [][ UnknownStatementCase =>
          /\ pc = "dispatch" =>
               (pc' = "except" /\ out' = << >> /\ UNCHANGED prepared_stmts)
          /\ pc = "except" =>
               /\ pc' = "finally"
               /\ Len(out') = 1
               /\ out'[1].type = "ERR"
               /\ out'[1].code = "UNKNOWN_PROCEDURE"
               /\ UNCHANGED prepared_stmts
          /\ pc = "finally" =>
               (pc' = "cmd_read" /\ UNCHANGED << out, prepared_stmts >>)
      ]_vars

\* A fetch naming an unknown statement was answered with the ERR alone while
\* a live statement keeps its long data and its open cursor.
C19_Witness ==
    /\ pc = "finally"
    /\ command.type = "COM_STMT_FETCH"
    /\ UnknownStatementCase
    /\ out = << error_packet(<<"Unknown statement: ", ToString(command.stmt_id)>>,
                             "UNKNOWN_PROCEDURE") >>
    /\ \E t \in DOMAIN prepared_stmts :
          /\ BufferOf(prepared_stmts[t].param_buffers, 0) = <<"a">>
          /\ prepared_stmts[t].cursor.open
          /\ Len(prepared_stmts[t].cursor.rows) = 1

\* C20: STMT_SEND_LONG_DATA and STMT_CLOSE write no packet, whether the
\* statement id is known or not; STMT_CLOSE removes the statement when it is
\* in the registry and changes nothing otherwise.
C20_NoResponse ==
    [][ (pc = "dispatch"
         /\ command.type \in {"COM_STMT_SEND_LONG_DATA", "COM_STMT_CLOSE"}) =>
          /\ pc' = "finally"
          /\ out' = << >>
          /\ command.type = "COM_STMT_CLOSE" =>
               /\ DOMAIN prepared_stmts' = DOMAIN prepared_stmts \ {command.stmt_id}
               /\ \A t \in DOMAIN prepared_stmts' :
                     prepared_stmts'[t] = prepared_stmts[t]
      ]_vars

-----------------------------------------------------------------------------
\* C21: STMT_EXECUTE of a live statement whose query returns.  With a result
\* set of N > 0 columns the response is the column count, then the N column
\* definitions, then: when a cursor is requested, one OK/EOF with
\* CURSOR_EXISTS and no row packet, and the statement's cursor holds every row
\* in result order; otherwise an EOF only when DEPRECATE_EOF is not
\* negotiated, then every row as one binary row packet in result order, then
\* one terminating OK/EOF.  With an empty result set the response is a single
\* OK.
C21_ExecuteResponseShape ==
    [][ ExecuteCase /\ pc' = "finally" =>
          LET rs == result_set'
              N == Len(rs.columns)
              R == Len(rs.rows)
              gate == IF deprecate_eof THEN 0 ELSE 1
              stmt == prepared_stmts'[command.stmt_id]
          IN IF N = 0
             THEN out' = << ok >>
             ELSE /\ Len(out') >= N + 2
                  /\ out'[1] = [type |-> "ColumnCount", count |-> N]
                  /\ \A i \in 1..N :
                        out'[i + 1] = [type |-> "ColumnDefinition41", name |-> rs.columns[i]]
                  /\ Last(out').type = IF deprecate_eof THEN "OK" ELSE "EOF"
                  /\ IF command.use_cursor
                     THEN /\ Len(out') = N + 2
                          /\ Last(out').flags = {SERVER_STATUS_CURSOR_EXISTS}
                          /\ stmt.cursor.open
                          /\ Len(stmt.cursor.rows) = R
                          /\ \A i \in 1..R :
                                stmt.cursor.rows[i] = [type |-> "BinaryRow", row |-> rs.rows[i]]
                     ELSE /\ Len(out') = N + 1 + gate + R + 1
                          /\ ~deprecate_eof => out'[N + 2] = [type |-> "EOF", flags |-> {}]
                          /\ \A i \in 1..R :
                                out'[N + 1 + gate + i] = [type |-> "BinaryRow", row |-> rs.rows[i]]
                          /\ Last(out').flags = {}
                          /\ stmt.cursor = prepared_stmts[command.stmt_id].cursor
      ]_vars

\* An execute without a cursor answered, DEPRECATE_EOF not negotiated, with two
\* columns, the EOF and the two rows in result order.
C21_Witness ==
    /\ pc = "finally"
    /\ command.type = "COM_STMT_EXECUTE"
    /\ ~command.use_cursor
    /\ ~deprecate_eof
    /\ result_set = ResultSet(2, 2)
    /\ Len(out) = 7
    /\ out[4].type = "EOF"
    /\ out[5] = [type |-> "BinaryRow", row |-> 1]
    /\ out[6] = [type |-> "BinaryRow", row |-> 2]
    /\ out[7].type = "EOF"

-----------------------------------------------------------------------------
\* STMT_RESET of a live statement.
ResetCase ==
    /\ pc = "dispatch"
    /\ command.type = "COM_STMT_RESET"
    /\ command.stmt_id \in DOMAIN prepared_stmts

\* C22: in every reachable state a prepared statement has a cursor only if
\* rows of the execution that attached it remain unsent; and a STMT_EXECUTE
\* without the cursor flag that is answered, a STMT_RESET, and a STMT_FETCH
\* that leaves no unsent row each leave the statement without a cursor.
C22_CursorOnlyWhileRowsRemain ==
    /\ [](\A s \in DOMAIN prepared_stmts :
            prepared_stmts[s].cursor.open => prepared_stmts[s].cursor.rows # << >>)
    /\ [][ ExecuteCase /\ ~command.use_cursor /\ pc' = "finally" =>
             ~prepared_stmts'[command.stmt_id].cursor.open ]_vars
    /\ [][ ResetCase => ~prepared_stmts'[command.stmt_id].cursor.open ]_vars
    /\ [][ FetchCase /\ prepared_stmts'[command.stmt_id].cursor.rows = << >> =>
             ~prepared_stmts'[command.stmt_id].cursor.open ]_vars

-----------------------------------------------------------------------------
\* C23: COM_RESET_CONNECTION is answered with a single OK and changes nothing
\* else: the registry of prepared statements with every statement's long-data
\* buffers and cursor, the statement id sequence, the username, the database
\* and the negotiated capabilities are what they were, so every statement
\* prepared before it is still there to be executed.
C23_ResetConnectionIsNoOp ==
    [][ pc = "dispatch" /\ command.type = "COM_RESET_CONNECTION" =>
          /\ out' = << [type |-> "OK", eof |-> FALSE, affected_rows |-> 0, flags |-> {}] >>
          /\ pc' = "finally"
          /\ prepared_stmts' = prepared_stmts
          /\ prepared_stmt_seq' = prepared_stmt_seq
          /\ username' = username
          /\ database' = database
          /\ capabilities' = capabilities
          /\ session' = session
      ]_vars

\* A reset answered while one statement holds long data and another an open
\* cursor with an unsent row.
C23_Witness ==
    /\ pc = "finally"
    /\ command.type = "COM_RESET_CONNECTION"
    /\ out = << ok >>
    /\ \E s, t \in DOMAIN prepared_stmts :
          /\ s # t
          /\ prepared_stmts[s].param_buffers # NoBuffers
          /\ prepared_stmts[t].cursor.open
          /\ prepared_stmts[t].cursor.rows # << >>

-----------------------------------------------------------------------------
\* The steps of an authenticate run in which the plugin has been consulted.
PluginConsulted == pc \in {"auth_loop", "auth_switch_read", "auth_more_read"}

\* C24: the handshake's nonce and plugin name are assigned only by the step
\* that writes HandshakeV10, which carries them, and never change afterwards;
\* the AuthInfo of every authenticate run, CHANGE_USER included, holds exactly
\* these two values; and an authenticate run of CHANGE_USER has no handshake
\* plugin to resume and never takes the fast path.
C24_HandshakeNonceKept ==
    /\ [][ pc # "start" =>
             /\ handshake_auth_data' = handshake_auth_data
             /\ handshake_auth_plugin' = handshake_auth_plugin ]_vars
    /\ [](\A i \in DOMAIN out :
            out[i].type = "HandshakeV10" =>
               /\ handshake_auth_data # None
               /\ handshake_auth_plugin # None
               /\ out[i].auth_data = handshake_auth_data
               /\ out[i].auth_plugin_name = handshake_auth_plugin)
    /\ [](PluginConsulted =>
            /\ auth.info.handshake_auth_data = handshake_auth_data
            /\ auth.info.handshake_plugin_name = handshake_auth_plugin
            /\ handshake_auth_data # None
            /\ handshake_auth_plugin # None)
    /\ [](ctx = "change_user" /\ PluginConsulted =>
            /\ auth.server_plugin = None
            /\ auth.path \in {"direct", "switch"})

\* A CHANGE_USER on the switch path: the user's plugin, started afresh, issued
\* its own nonce in the AuthSwitchRequest, and the AuthInfo it was then fed
\* holds the other nonce, the one of the handshake.
C24_Witness ==
    /\ ctx = "change_user"
    /\ pc = "auth_loop"
    /\ auth.path = "switch"
    /\ auth.first_yield = Challenge("nonce")
    /\ \E i \in DOMAIN out : out[i] = make_auth_switch_request(
                                 PluginClientPluginName(auth.user_plugin), "nonce")
    /\ handshake_auth_data = "nonce2"
    /\ auth.info.handshake_auth_data = "nonce2"
    /\ auth.info.handshake_plugin_name = handshake_auth_plugin

-----------------------------------------------------------------------------
\* C25: in the loop of an authenticate run each bytes decision is answered by
\* exactly one AuthMoreData carrying it, followed by one read after which the
\* plugin's next decision is taken without any other write; the first Success
\* or Forbidden ends the run with one OK or ERR; so a run whose plugin gave k
\* bytes decisions to the loop has written exactly k AuthMoreData, all before
\* its only terminal packet.
C25_AuthRounds ==
    /\ [][ pc = "auth_loop" /\ ~IsTerminal(auth.decision) =>
             /\ out' = Append(out, [type |-> "AuthMoreData", data |-> auth.decision.data])
             /\ pc' = "auth_more_read" ]_vars
    /\ [][ pc = "auth_more_read" /\ pc' = "auth_loop" => out' = out ]_vars
    /\ [][ pc = "auth_loop" /\ IsTerminal(auth.decision) =>
             /\ pc' = "auth_return"
             /\ Len(out') = Len(out) + 1
             /\ SubSeq(out', 1, Len(out)) = out
             /\ Last(out').type = IF auth.decision.kind = "Success" THEN "OK" ELSE "ERR" ]_vars
    /\ [](pc = "auth_return" /\ auth.user_plugin # None =>
            /\ Count(AuthRun, "AuthMoreData") = auth.challenges
            /\ Len(AuthRun) = auth.challenges + 1 + Count(AuthRun, "AuthSwitchRequest")
            /\ IsTerminalPacket(Last(AuthRun))
            /\ \A i \in 1..(Len(AuthRun) - 1) : ~IsTerminalPacket(AuthRun[i]))

\* A run on the switch path whose plugin, fed the answer to its
\* AuthSwitchRequest, asked twice for more data and then refused: the request,
\* two AuthMoreData and the ERR.
C25_Witness ==
    /\ pc = "auth_return"
    /\ auth.path = "switch"
    /\ auth.challenges = 2
    /\ Len(AuthRun) = 4
    /\ AuthRun[1].type = "AuthSwitchRequest"
    /\ AuthRun[2] = make_auth_more_data("more")
    /\ AuthRun[3] = make_auth_more_data("more")
    /\ AuthRun[4].type = "ERR"

-----------------------------------------------------------------------------
\* C26: for every cursor, the batches of rows its fetches have delivered,
\* concatenated in the order of the fetches, are the first rows of the result
\* the cursor was opened on, in their order, as many as were asked for in
\* total and no more than the result has: no row is skipped or repeated, and
\* once the counts asked for sum to the size of the result or more, the rows
\* delivered are the whole result.
C26_CursorRowsOnceInOrder ==
    \A s \in StmtIds :
       LET log == cursor_log[s]
       IN /\ log.asked <= Len(log.result)
          /\ Concat(log.batches) = SubSeq(log.result, 1, log.asked)
          /\ log.asked = Len(log.result) => Concat(log.batches) = log.result

\* A result of two rows delivered by two fetches of one row each, which
\* drained the cursor.
C26_Witness ==
    /\ pc = "dispatch"
    /\ \E s \in StmtIds :
          /\ cursor_log[s].result = << 1, 2 >>
          /\ cursor_log[s].batches = << << 1 >>, << 2 >> >>
          /\ cursor_log[s].asked = 2
          /\ s \in DOMAIN prepared_stmts
          /\ prepared_stmts[s].cursor.open
          /\ prepared_stmts[s].cursor.rows = << >>

-----------------------------------------------------------------------------
\* The ids the map holds are those of the running handlers, one each.
MapIsRunningHandlers ==
    /\ DOMAIN connections = { tasks[c] : c \in DOMAIN tasks }
    /\ Cardinality(DOMAIN connections) = Cardinality(DOMAIN tasks)

\* C27: the map holds exactly the connections whose handler is running; a
\* handler starts with its connection in the map under an id that was not
\* in it; when a handler ends, by returning or by raising, its id leaves the
\* map; and a client is turned away for the cap only when the running
\* handlers alone reach it, whatever number of connections has ended before.
C27_MapHoldsRunningHandlers ==
    /\ []MapIsRunningHandlers
    /\ [][ \A c \in Conns :
             (c \notin DOMAIN tasks /\ c \in DOMAIN tasks') =>
                /\ tasks'[c] \notin DOMAIN connections
                /\ tasks'[c] \in DOMAIN connections'
                /\ connections'[tasks'[c]] = c ]_vars
    /\ [][ \A c \in Conns :
             (c \in DOMAIN tasks /\ c \notin DOMAIN tasks') =>
                /\ accepted'.kind \in StartOutcomes
                /\ tasks[c] \notin DOMAIN connections'
                /\ Cardinality(DOMAIN connections') = Cardinality(DOMAIN connections) - 1 ]_vars
    /\ [][ (AcceptStep /\ Cardinality(DOMAIN tasks) < MAX_CONNECTION_SEQ) =>
             accepted'.kind # "MaxConnectionsExceeded" ]_vars

\* Every id of the sequence has been released by a connection that ended,
\* and the latest client was given one of these ids again while the other
\* ids are live again too.
C27_Witness ==
    /\ Cardinality(released) = MAX_CONNECTION_SEQ
    /\ accepted.kind = "id"
    /\ accepted.id \in released
    /\ accepted.id \in DOMAIN connections
    /\ connections[accepted.id] = accepted.conn
    /\ Cardinality(DOMAIN connections) = MAX_CONNECTION_SEQ

====
